---------------------------- MODULE Spec2Model ----------------------------
(***************************************************************************)
(* Model of the document ingestion and report synthesis pipeline of        *)
(* app/services/medical_report_service.py (MedicalReportService).          *)
(*                                                                         *)
(* Python strings are sequences of one-character strings, so that string   *)
(* concatenation, substring tests and lower() are computed, not assumed.   *)
(* An optional value is <<>> (None, or a key that is absent) or <<v>>.     *)
(***************************************************************************)
EXTENDS Integers, Sequences, FiniteSets, TLC

\* ------------------------------------------------------------------ bounds

\* Largest number of nodes (maps, lists and scalars) of a generated record.
MaxNodes == 4

\* Largest number of fields of a generated flat patient record.
MaxAssets == 2

\* Largest number of chunks a generated URL is made of after its host.
MaxChunks == 3

\* Number of requests in flight at once.
MaxRuns == 2

\* ----------------------------------------------------------------- strings

\* pattern in text, as Python's `pattern in text` on str.
Contains(text, pattern) ==
    \E n \in 0..(Len(text) - Len(pattern)) :
        SubSeq(text, n + 1, n + Len(pattern)) = pattern

UpperChars == <<"A", "B", "C", "D", "E", "F", "G", "H", "I", "J", "K", "L", "M",
                "N", "O", "P", "Q", "R", "S", "T", "U", "V", "W", "X", "Y", "Z">>

LowerChars == <<"a", "b", "c", "d", "e", "f", "g", "h", "i", "j", "k", "l", "m",
                "n", "o", "p", "q", "r", "s", "t", "u", "v", "w", "x", "y", "z">>

\* str.lower(), one character.
LowerChar(c) ==
    IF \E n \in 1..26 : UpperChars[n] = c
    THEN LowerChars[CHOOSE n \in 1..26 : UpperChars[n] = c]
    ELSE c

\* str.lower().
Lower(text) == [n \in 1..Len(text) |-> LowerChar(text[n])]

Digits == <<"0", "1", "2", "3", "4", "5", "6", "7", "8", "9">>

\* str(n) of a non-negative int, as the f-strings format an index.
RECURSIVE IntToStr(_)
IntToStr(n) ==
    IF n < 10 THEN <<Digits[n + 1]>>
    ELSE IntToStr(n \div 10) \o <<Digits[(n % 10) + 1]>>

\* str.replace(old, new) for a one-character old.
Replace(text, old, new) ==
    [n \in 1..Len(text) |-> IF text[n] = old THEN new ELSE text[n]]

\* The concatenation of a sequence of sequences.
RECURSIVE Concat(_)
Concat(seqs) ==
    IF seqs = <<>> THEN <<>> ELSE Head(seqs) \o Concat(Tail(seqs))

\* ------------------------------------------------------- nested JSON values

\* A JSON value: a map (dict), a list, a string or another scalar.  A map keeps
\* its entries in insertion order, each with a distinct key; a list's entries
\* carry the empty key.
JsonStr(text)   == [tag |-> "str",  val |-> text, items |-> <<>>]
JsonOther       == [tag |-> "other", val |-> <<>>, items |-> <<>>]
JsonDict(items) == [tag |-> "dict", val |-> <<>>, items |-> items]
JsonList(items) == [tag |-> "list", val |-> <<>>, items |-> items]
Entry(k, v)     == [key |-> k, node |-> v]

\* --------------------------------------------------------------- resolver

\* The hosting-provider pattern of extract_cloudinary_urls.search.
CloudinaryPattern ==
    <<"c", "l", "o", "u", "d", "i", "n", "a", "r", "y", ".", "c", "o", "m">>

PdfMarkers ==
    { <<".", "p", "d", "f">>, <<"/", "p", "d", "f", "/">> }

ImageMarkers ==
    { <<".", "j", "p", "g">>, <<".", "j", "p", "e", "g">>, <<".", "p", "n", "g">>,
      <<".", "g", "i", "f">>, <<".", "w", "e", "b", "p">>,
      <<"/", "i", "m", "a", "g", "e", "/">> }

\* The kinds _guess_type returns.
PDF     == <<"p", "d", "f">>
IMAGE   == <<"i", "m", "a", "g", "e">>
UNKNOWN == <<"u", "n", "k", "n", "o", "w", "n">>

\* Mutant of _guess_type: the URL is not lowered before the markers are tested.
GuessTypeCaseSensitive(url) ==
    IF \E x \in PdfMarkers : Contains(url, x) THEN PDF
    ELSE IF \E x \in ImageMarkers : Contains(url, x) THEN IMAGE
    ELSE UNKNOWN

\* Mutant of _guess_type: the PDF markers are not tested.
GuessTypeNoPdf(url) ==
    IF \E x \in ImageMarkers : Contains(Lower(url), x) THEN IMAGE ELSE UNKNOWN

_guess_type(url) ==
    IF \E x \in PdfMarkers : Contains(Lower(url), x) THEN PDF
    ELSE IF \E x \in ImageMarkers : Contains(Lower(url), x) THEN IMAGE
    ELSE UNKNOWN

\* Whether search appends a reference for this string leaf.
IsCloudinary(text) == Contains(text, CloudinaryPattern)

\* Mutant of search: list elements are not visited.
RECURSIVE SearchSkipsLists(_, _)
SearchSkipsLists(obj, path) ==
    IF obj.tag = "dict" THEN
        Concat([n \in 1..Len(obj.items) |->
            SearchSkipsLists(obj.items[n].node,
                IF path # <<>> THEN path \o <<".">> \o obj.items[n].key
                ELSE obj.items[n].key)])
    ELSE IF obj.tag = "str" /\ IsCloudinary(obj.val) THEN
        << [url |-> obj.val, field |-> path, type |-> _guess_type(obj.val)] >>
    ELSE <<>>

\* Mutant of search: every string leaf is taken for a hosted asset.
RECURSIVE SearchEveryString(_, _)
SearchEveryString(obj, path) ==
    IF obj.tag = "dict" THEN
        Concat([n \in 1..Len(obj.items) |->
            SearchEveryString(obj.items[n].node,
                IF path # <<>> THEN path \o <<".">> \o obj.items[n].key
                ELSE obj.items[n].key)])
    ELSE IF obj.tag = "list" THEN
        Concat([n \in 1..Len(obj.items) |->
            SearchEveryString(obj.items[n].node,
                path \o <<"[">> \o IntToStr(n - 1) \o <<"]">>)])
    ELSE IF obj.tag = "str" THEN
        << [url |-> obj.val, field |-> path, type |-> _guess_type(obj.val)] >>
    ELSE <<>>

\* extract_cloudinary_urls.search: the references appended while visiting obj,
\* in the order of the appends.
RECURSIVE search(_, _)
search(obj, path) ==
    IF obj.tag = "dict" THEN
        Concat([n \in 1..Len(obj.items) |->
            search(obj.items[n].node,
                IF path # <<>> THEN path \o <<".">> \o obj.items[n].key
                ELSE obj.items[n].key)])
    ELSE IF obj.tag = "list" THEN
        Concat([n \in 1..Len(obj.items) |->
            search(obj.items[n].node,
                path \o <<"[">> \o IntToStr(n - 1) \o <<"]">>)])
    ELSE IF obj.tag = "str" /\ IsCloudinary(obj.val) THEN
        << [url |-> obj.val, field |-> path, type |-> _guess_type(obj.val)] >>
    ELSE <<>>

extract_cloudinary_urls(data) == search(data, <<>>)

\* ----------------------------------------------------------------- inputs

\* Strings that occur as leaves of the patient records.
PdfUrl ==
    <<"h", "t", "t", "p", "s", ":", "/", "/", "r", "e", "s", ".", "c", "l", "o",
      "u", "d", "i", "n", "a", "r", "y", ".", "c", "o", "m", "/", "r", "/", "l",
      "a", "b", "s", ".", "p", "d", "f">>

ImageUrl ==
    <<"h", "t", "t", "p", "s", ":", "/", "/", "r", "e", "s", ".", "c", "l", "o",
      "u", "d", "i", "n", "a", "r", "y", ".", "c", "o", "m", "/", "i", "m", "a",
      "g", "e", "/", "u", "p", "l", "o", "a", "d", "/", "x", "r", "a", "y", ".",
      "P", "N", "G">>

UnknownUrl ==
    <<"h", "t", "t", "p", "s", ":", "/", "/", "r", "e", "s", ".", "c", "l", "o",
      "u", "d", "i", "n", "a", "r", "y", ".", "c", "o", "m", "/", "r", "a", "w",
      "/", "u", "p", "l", "o", "a", "d", "/", "n", "o", "t", "e", "s">>

\* The URL of the scenario of spec section 8: it is not on the hosting
\* provider's domain.
ExampleUrl ==
    <<"h", "t", "t", "p", "s", ":", "/", "/", "a", "s", "s", "e", "t", "s", ".",
      "e", "x", "a", "m", "p", "l", "e", ".", "c", "o", "m", "/", "p", "d", "f",
      "/", "l", "a", "b", "s", "_", "1", "2", ".", "p", "d", "f">>

\* The same document on the hosting provider's domain.
HostedExampleUrl ==
    <<"h", "t", "t", "p", "s", ":", "/", "/", "r", "e", "s", ".", "c", "l", "o",
      "u", "d", "i", "n", "a", "r", "y", ".", "c", "o", "m", "/", "p", "d", "f",
      "/", "l", "a", "b", "s", "_", "1", "2", ".", "p", "d", "f">>

PlainName == <<"A", "s", "h", "a">>

ReportUrlKey == <<"r", "e", "p", "o", "r", "t", "_", "u", "r", "l">>

\* Keys of the generated nested records: plain ones, and one that holds the
\* separator the field path joins map keys with.
RecordKeys ==
    { <<"a">>, <<"b">>, <<"a", ".", "b">> }

\* Leaves of the generated nested records.
RecordLeaves ==
    { JsonStr(PdfUrl), JsonStr(ImageUrl), JsonStr(PlainName) }

\* The sequences of m distinct keys.
KeySeqs(m) ==
    { ks \in [1..m -> RecordKeys] :
        \A x, y \in 1..m : x # y => ks[x] # ks[y] }

AllKeySeqs == UNION { KeySeqs(m) : m \in 0..Cardinality(RecordKeys) }

\* The JSON values of exactly n nodes, given the set of the sequences of JSON
\* values of n - 1 nodes in all (the children of the root).
SizedFrom(children, n) ==
    (IF n = 1 THEN RecordLeaves ELSE {})
    \cup { JsonList([x \in 1..Len(cs) |-> Entry(<<>>, cs[x])]) : cs \in children }
    \cup { JsonDict([x \in 1..Len(p[1]) |-> Entry(p[2][x], p[1][x])]) :
             p \in { q \in children \X AllKeySeqs : Len(q[1]) = Len(q[2]) } }

\* JsonTable(n).sized[k] (k in 1..n): the JSON values of exactly k nodes;
\* JsonTable(n).seqs[t + 1] (t in 0..n): the sequences of JSON values of t
\* nodes in all.
RECURSIVE JsonTable(_)
JsonTable(n) ==
    IF n = 0 THEN [sized |-> <<>>, seqs |-> << { <<>> } >>]
    ELSE
        LET prev  == JsonTable(n - 1)
            sized == Append(prev.sized, SizedFrom(prev.seqs[n], n))
            more  == UNION { { <<c>> \o rest :
                                c \in sized[k], rest \in prev.seqs[n - k + 1] } :
                             k \in 1..n }
        IN  [sized |-> sized, seqs |-> Append(prev.seqs, more)]

\* The nested records of up to `most` nodes.
NestedRecords(most) ==
    LET table == JsonTable(most - 1)
    IN  UNION { table.sized[n] : n \in 1..(most - 1) }
        \cup SizedFrom(table.seqs[most], most)

\* The key of the n-th field of a generated flat patient record.
FieldKey(n) == <<"d", "o", "c">> \o IntToStr(n)

FieldLeaves ==
    { JsonStr(PdfUrl), JsonStr(ImageUrl), JsonStr(UnknownUrl), JsonStr(PlainName) }

\* Flat patient records of up to MaxAssets fields.
FlatRecords ==
    UNION { { JsonDict([x \in 1..m |-> Entry(FieldKey(x), vs[x])]) :
                vs \in [1..m -> FieldLeaves] } :
            m \in 0..MaxAssets }

\* The record of the scenario of spec section 8, and the same record with the
\* document on the hosting provider's domain.
ScenarioRecord ==
    JsonDict(<< Entry(<<"n", "a", "m", "e">>, JsonStr(PlainName)),
                Entry(ReportUrlKey, JsonStr(ExampleUrl)) >>)

HostedScenarioRecord ==
    JsonDict(<< Entry(<<"n", "a", "m", "e">>, JsonStr(PlainName)),
                Entry(ReportUrlKey, JsonStr(HostedExampleUrl)) >>)

\* A nested record: documents.xray[0], documents.xray[1].
NestedScenarioRecord ==
    JsonDict(<< Entry(<<"a", "g", "e">>, JsonOther),
                Entry(<<"d", "o", "c", "u", "m", "e", "n", "t", "s">>,
                  JsonDict(<< Entry(<<"x", "r", "a", "y">>,
                      JsonList(<< Entry(<<>>, JsonStr(ImageUrl)),
                                  Entry(<<>>, JsonStr(PdfUrl)) >>)) >>)) >>)

\* Records whose field paths differ only in what the scratch filename
\* replaces or appends: a.b as a nested field and as one key, the key a_b,
\* and keys that end in '_' and a digit as the filename's index part does.
DottedKeyRecord ==
    JsonDict(<< Entry(<<"a">>, JsonDict(<< Entry(<<"b">>, JsonStr(PdfUrl)) >>)),
                Entry(<<"a", ".", "b">>, JsonStr(PdfUrl)),
                Entry(<<"a", "_", "b">>, JsonStr(PdfUrl)) >>)

UnderscoreKeyRecord ==
    JsonDict(<< Entry(<<"a">>, JsonStr(PdfUrl)),
                Entry(<<"a", "_", "1">>, JsonStr(PdfUrl)),
                Entry(<<"a", ".", "1">>, JsonStr(PdfUrl)) >>)

\* The records of the runs that are followed through their downloads: the
\* nested records of less than `most` nodes and the records above.
ScratchRecords(most) ==
    NestedRecords(most - 1)
    \cup { DottedKeyRecord, UnderscoreKeyRecord, NestedScenarioRecord }

\* The patient records the registration source may hold.
PatientRecords ==
    FlatRecords \cup { ScenarioRecord, HostedScenarioRecord, NestedScenarioRecord }

\* The host and first path segment of the generated URLs.
HostPrefix ==
    <<"h", "t", "t", "p", "s", ":", "/", "/", "r", "e", "s", ".", "c", "l", "o",
      "u", "d", "i", "n", "a", "r", "y", ".", "c", "o", "m", "/", "u">>

\* What the generated URLs are made of after the host: markers in several
\* cases, and parts of markers that only make one when joined.
UrlChunks ==
    { <<".", "P", "d", "F">>, <<"/", "p", "d", "f">>, <<"/">>,
      <<".", "j", "p", "G">>, <<".", "J", "P", "E", "G">>,
      <<".", "p", "n", "g">>, <<".", "g", "i", "f">>,
      <<".", "W", "e", "b", "P">>, <<"/", "I", "m", "a", "g", "e">>,
      <<".", "p", "d">>, <<"f">>, <<"d", "o", "c">> }

\* The URLs of up to `most` chunks.
GuessUrls(most) ==
    UNION { { HostPrefix \o Concat(cs) : cs \in [1..m -> UrlChunks] } :
            m \in 0..most }

\* The records that hold one generated URL.
GuessRecords(most) ==
    { JsonDict(<< Entry(FieldKey(1), JsonStr(url)) >>) : url \in GuessUrls(most) }

\* ------------------------------------------------------------------ state

VARIABLES
    PyPDF2,           \* whether the PDF backend was imported (module level)
    ocr,              \* whether PIL.Image and pytesseract were both imported
    source,           \* the record the registration source holds for the user
    pc,               \* the position of generate_report
    patient,          \* optional: the fetched patient record
    urls,             \* the references extract_cloudinary_urls returned
    files,            \* the retrieved-asset entries built so far
    temp_dir,         \* the scratch directory: a set of [name, content]
    downloads,        \* the number of download_file calls made
    extracted_texts,  \* extract_text_from_files: the fragments appended
    j,                \* extract_text_from_files: the number of files handled
    stage1_input,     \* optional: the user content of the Stage 1 call
    stage1_calls,     \* the number of Stage 1 calls issued
    extracted_data,   \* optional: the content of the Stage 1 response
    stage2_input,     \* optional: what report_prompt embeds
    stage2_calls,     \* the number of Stage 2 calls issued
    resp2,            \* optional: the content of the Stage 2 response
    analysis,         \* optional: what analyze_with_openai returned
    report,           \* optional: what generate_report returned
    error,            \* optional: the exception the request raised
    first,            \* optional: the record of an earlier analyze_file_only run
    runs,             \* the requests in flight at once, by request id
    request,          \* optional: the HTTP request an endpoint handler was given
    response          \* optional: the HTTP response to that request

vars ==
    << PyPDF2, ocr, source, pc, patient, urls, files, temp_dir, downloads,
       extracted_texts, j, stage1_input, stage1_calls, extracted_data,
       stage2_input, stage2_calls, resp2, analysis, report, error, first,
       runs, request, response >>

\* What a run has before its first step, the record aside.
InitRun ==
    /\ urls = <<>>
    /\ files = <<>>
    /\ temp_dir = {}
    /\ downloads = 0
    /\ extracted_texts = <<>>
    /\ j = 0
    /\ stage1_input = <<>>
    /\ stage1_calls = 0
    /\ extracted_data = <<>>
    /\ stage2_input = <<>>
    /\ stage2_calls = 0
    /\ resp2 = <<>>
    /\ analysis = <<>>
    /\ report = <<>>
    /\ error = <<>>
    /\ first = <<>>
    /\ runs = <<>>
    /\ request = <<>>
    /\ response = <<>>

\* generate_report, line 920: urls = self.extract_cloudinary_urls(patient).
Resolve ==
    /\ pc = "resolve"
    /\ urls' = extract_cloudinary_urls(patient[1])
    /\ pc' = "download"
    /\ UNCHANGED << PyPDF2, ocr, first, runs, request, response, source,
                    patient, files, temp_dir, downloads, extracted_texts, j,
                    stage1_input, stage1_calls, extracted_data, stage2_input,
                    stage2_calls, resp2, analysis, report, error >>

\* ---------------------------------------------------------------- retrieval

\* Python truthiness of an optional str or Path: set, and not empty.
Truthy(opt) == opt # <<>> /\ opt[1] # <<>>

\* Mutant of Filename: the index of the reference is left out.
FilenameNoIndex(u, n) ==
    Replace(u.field, ".", "_") \o <<".">> \o u.type

\* generate_report, line 924: the scratch filename of the reference at index n.
Filename(u, n) ==
    Replace(u.field, ".", "_") \o <<"_">> \o IntToStr(n) \o <<".">> \o u.type

\* Path.write_bytes: the scratch directory with `name` holding `content`.
WriteBytes(dir, name, content) ==
    { f \in dir : f.name # name } \cup { [name |-> name, content |-> content] }

\* What a read of the scratch file `name` returns.
ReadBytes(dir, name) == (CHOOSE f \in dir : f.name = name).content

\* How download_file can fail: the 60 s timeout (asyncio.TimeoutError), a
\* non-success status (raise_for_status), or an I/O error of write_bytes
\* after the scratch file was created.
DownloadFailures == { "timeout", "status", "write" }

\* str(e) of the exception of each failure; asyncio.TimeoutError carries no
\* message.
ExceptionText(failure) ==
    CASE failure = "timeout" -> <<>>
      [] failure = "status"  -> <<"4", "0", "4">>
      [] failure = "write"   -> <<"E", "N", "O", "S", "P", "C">>

\* generate_report, line 927: the entry of a downloaded reference.
DownloadedEntry(u, path) ==
    [url |-> u.url, field |-> u.field, type |-> u.type,
     path |-> <<path>>, error |-> <<>>]

\* generate_report, line 930: the entry of a reference whose download raised e.
FailedEntry(u, e) ==
    [url |-> u.url, field |-> u.field, type |-> u.type,
     path |-> <<>>, error |-> <<e>>]

\* ---------------------------------------------------------------- extraction

Whitespace == { " ", "\n", "\t" }

\* `text and text.strip()`: the text holds a character that is not whitespace.
HasText(text) == \E n \in 1..Len(text) : text[n] \notin Whitespace

\* What PyPDF2 can make of a downloaded file: pages with text, one page
\* without text, no page at all, or an exception.
PdfOutcomes == { "pages", "blank_page", "no_pages", "error" }

\* extract_text_from_pdf._extract: each page's text and a newline.
PdfText(outcome, content) ==
    CASE outcome = "pages"      -> content \o <<"\n">>
      [] outcome = "blank_page" -> <<"\n">>
      [] outcome = "no_pages"   -> <<>>
      [] outcome = "error"      -> <<>>

\* What pytesseract can make of a downloaded image.
OcrOutcomes == { "text", "blank", "error" }

\* _ocr_image, and the except clause of line 124.
OcrText(outcome, content) ==
    CASE outcome = "text"  -> content \o <<"\n">>
      [] outcome = "blank" -> <<" ", "\n">>
      [] outcome = "error" -> <<>>

\* One element of extracted_texts: which file it was built from (src, a
\* position of files), which of the four f-strings built it, and the field
\* path and text the f-string embeds.
Fragment(src, label, f, text) ==
    [src |-> src, label |-> label, field |-> f.field, type |-> f.type,
     text |-> text]

\* extract_text_from_files, lines 115-133: what one file appends to
\* extracted_texts, given what the backends returned for it.
ExtractOne(f, src, pdf_text, ocr_text) ==
    IF f.type = PDF /\ Truthy(f.path) THEN
        IF HasText(pdf_text) THEN << Fragment(src, "pdf_text", f, pdf_text) >>
        ELSE <<>>
    ELSE IF f.type = IMAGE /\ Truthy(f.path) THEN
        IF HasText(ocr_text) THEN << Fragment(src, "ocr_text", f, ocr_text) >>
        ELSE << Fragment(src, "image_note", f, <<>>) >>
    ELSE IF Truthy(f.path) THEN << Fragment(src, "file_note", f, <<>>) >>
    ELSE <<>>

\* analyze_with_openai, lines 246-253: the inline images of the Stage 1 call.
RECURSIVE InlineImages(_, _, _)
InlineImages(fs, dir, n) ==
    IF n > Len(fs) THEN <<>>
    ELSE
        (IF fs[n].type = IMAGE /\ Truthy(fs[n].path)
         THEN << [src |-> n, data |-> ReadBytes(dir, fs[n].path[1])] >>
         ELSE <<>>)
        \o InlineImages(fs, dir, n + 1)

\* ----------------------------------------------------------------- synthesis

\* The content of a Stage 1 response: free text.
Stage1Outputs == { <<"extraction A">>, <<"extraction B">> }

\* The mandatory core keys of the Stage 2 schema (report_schema.py,
\* MedicalAnalysis).  A member name of the Stage 2 payload is written as a
\* string of one chunk.
MandatoryKeys ==
    << "patient_info", "examination_findings", "risk_stratification",
       "key_calculations", "individualized_diet_plan",
       "exercise_physiotherapy_plan", "management_advice_triggers",
       "red_flags_emergency_return", "follow_up_plan",
       "integrated_report_summary" >>

\* The content of a Stage 2 response is a sequence of JSON tokens: the
\* punctuation, null, and string literals (any other token).
Punctuation == { "{", "}", ":", "," }

ParseFailure == [ok |-> FALSE, val |-> JsonOther, rest |-> <<>>]

\* dict[key] = value: a repeated member name keeps its place and takes the
\* later value.
SetItem(items, k, v) ==
    IF \E n \in 1..Len(items) : items[n].key = k
    THEN [n \in 1..Len(items) |->
            IF items[n].key = k THEN Entry(k, v) ELSE items[n]]
    ELSE Append(items, Entry(k, v))

\* The JSON decoder: one value off the front of the tokens.
RECURSIVE ParseValue(_), ParseMembers(_, _)
ParseValue(toks) ==
    IF toks = <<>> THEN ParseFailure
    ELSE IF Head(toks) = "null" THEN
        [ok |-> TRUE, val |-> JsonOther, rest |-> Tail(toks)]
    ELSE IF Head(toks) = "{" THEN
        IF Len(toks) >= 2 /\ toks[2] = "}"
        THEN [ok |-> TRUE, val |-> JsonDict(<<>>), rest |-> SubSeq(toks, 3, Len(toks))]
        ELSE ParseMembers(Tail(toks), <<>>)
    ELSE IF Head(toks) \in Punctuation THEN ParseFailure
    ELSE [ok |-> TRUE, val |-> JsonStr(<< Head(toks) >>), rest |-> Tail(toks)]

ParseMembers(toks, items) ==
    IF \/ Len(toks) < 2
       \/ toks[1] \in Punctuation \cup { "null" }
       \/ toks[2] # ":"
    THEN ParseFailure
    ELSE
        LET v == ParseValue(SubSeq(toks, 3, Len(toks))) IN
        IF ~v.ok \/ v.rest = <<>> THEN ParseFailure
        ELSE IF Head(v.rest) = "}" THEN
            [ok |-> TRUE,
             val |-> JsonDict(SetItem(items, << toks[1] >>, v.val)),
             rest |-> Tail(v.rest)]
        ELSE IF Head(v.rest) = "," THEN
            ParseMembers(Tail(v.rest), SetItem(items, << toks[1] >>, v.val))
        ELSE ParseFailure

\* Mutant of json_loads: input that ends early is closed and accepted.
JsonLoadsLenient(toks) ==
    LET r == ParseValue(toks) IN
    IF r.ok /\ r.rest = <<>> THEN [ok |-> TRUE, val |-> r.val]
    ELSE [ok |-> TRUE, val |-> JsonDict(<<>>)]

\* json.loads (line 809): the value, or JSONDecodeError.
json_loads(toks) ==
    LET r == ParseValue(toks) IN
    IF r.ok /\ r.rest = <<>> THEN [ok |-> TRUE, val |-> r.val]
    ELSE [ok |-> FALSE, val |-> JsonOther]

\* json.dumps of a JSON value, as tokens: what the generative service
\* serialises when its response is complete.
RECURSIVE Dumps(_)
Dumps(v) ==
    IF v.tag = "dict" THEN
        <<"{">>
        \o Concat([n \in 1..Len(v.items) |->
                (IF n > 1 THEN <<",">> ELSE <<>>)
                \o v.items[n].key \o <<":">> \o Dumps(v.items[n].node)])
        \o <<"}">>
    ELSE IF v.tag = "str" THEN v.val
    ELSE <<"null">>

\* Stage 2 payloads: the hybrid schema in full, with a laboratory category
\* found in the documents; the same without one mandatory key; a small
\* payload; the empty object.
LabResults ==
    Entry(<<"laboratory_results">>,
          JsonDict(<< Entry(<<"cbc">>, JsonStr(<<"Hb 12.1 g/dL">>)) >>))

FullPayload ==
    JsonDict([n \in 1..Len(MandatoryKeys) |->
                Entry(<< MandatoryKeys[n] >>, JsonOther)]
             \o << LabResults >>)

PartialPayload ==
    JsonDict([n \in 1..(Len(MandatoryKeys) - 1) |->
                Entry(<< MandatoryKeys[n] >>, JsonOther)]
             \o << LabResults >>)

SmallPayload ==
    JsonDict(<< Entry(<<"patient_info">>,
                      JsonDict(<< Entry(<<"name">>, JsonOther) >>)) >>)

Stage2Payloads ==
    { FullPayload, PartialPayload, SmallPayload, JsonDict(<<>>) }

\* A response cut short (max_tokens reached): a proper prefix of a payload's
\* serialisation.
Truncations(v) ==
    { SubSeq(Dumps(v), 1, n) : n \in 0..(Len(Dumps(v)) - 1) }

\* The contents the Stage 2 call may return.
Stage2Contents ==
    { Dumps(v) : v \in Stage2Payloads } \cup Truncations(SmallPayload)

\* ------------------------------------------------------------------ assembly

UserId == <<"u", "1">>

\* Mutant of FileStatus: every entry is reported as processed.
FileStatusAlwaysProcessed(f) == "processed"

\* generate_report, line 942.
FileStatus(f) == IF Truthy(f.path) THEN "processed" ELSE "error"

\* Mutant of BuildReport: assembly keeps the mandatory core keys only.
BuildReportCoreOnly(user_id, result, fs) ==
    [patient_id |-> user_id,
     medical_analysis |->
        JsonDict(SelectSeq(result.items,
                    LAMBDA e : \E n \in 1..Len(MandatoryKeys) :
                                  e.key = << MandatoryKeys[n] >>)),
     files_analyzed |->
        [n \in 1..Len(fs) |->
            [field |-> fs[n].field, url |-> fs[n].url, type |-> fs[n].type,
             status |-> FileStatus(fs[n])]],
     report_type |-> "comprehensive_medical_analysis",
     analysis_method |-> "hybrid_dynamic_structure"]

\* generate_report, lines 934-948 (the timestamp aside).
BuildReport(user_id, result, fs) ==
    [patient_id |-> user_id,
     medical_analysis |-> result,
     files_analyzed |->
        [n \in 1..Len(fs) |->
            [field |-> fs[n].field, url |-> fs[n].url, type |-> fs[n].type,
             status |-> FileStatus(fs[n])]],
     report_type |-> "comprehensive_medical_analysis",
     analysis_method |-> "hybrid_dynamic_structure"]

\* ------------------------------------------------------------------- actions

\* Mutant of FetchPatient: the exception of fetch_patient_data is swallowed and
\* the run goes on with what the source holds for the user.
FetchPatientSwallowed ==
    /\ pc = "fetch"
    /\ \/ /\ patient' = <<source>>
          /\ pc' = "resolve"
          /\ error' = error
       \/ /\ patient' = <<source>>
          /\ pc' = "resolve"
          /\ error' = <<"ClientError">>
    /\ UNCHANGED << PyPDF2, ocr, first, runs, request, response, source, urls,
                    files, temp_dir, downloads, extracted_texts, j,
                    stage1_input, stage1_calls, extracted_data, stage2_input,
                    stage2_calls, resp2, analysis, report >>

\* generate_report, line 919: fetch_patient_data returns the record, or raises
\* (source unreachable, timeout, raise_for_status).
FetchPatient ==
    /\ pc = "fetch"
    /\ \/ /\ patient' = <<source>>
          /\ pc' = "resolve"
          /\ error' = error
       \/ /\ patient' = patient
          /\ pc' = "failed"
          /\ error' = <<"ClientError">>
    /\ UNCHANGED << PyPDF2, ocr, first, runs, request, response, source, urls,
                    files, temp_dir, downloads, extracted_texts, j,
                    stage1_input, stage1_calls, extracted_data, stage2_input,
                    stage2_calls, resp2, analysis, report >>

\* Mutant of DownloadFails: the exception of download_file is not caught.
DownloadFailsUncaught ==
    /\ pc = "download"
    /\ Len(files) < Len(urls)
    /\ \E failure \in DownloadFailures :
          /\ error' = << "download: " >> \o ExceptionText(failure)
          /\ temp_dir' = temp_dir
    /\ downloads' = downloads + 1
    /\ pc' = "failed"
    /\ UNCHANGED << PyPDF2, ocr, first, runs, request, response, source,
                    patient, urls, files, extracted_texts, j, stage1_input,
                    stage1_calls, extracted_data, stage2_input, stage2_calls,
                    resp2, analysis, report >>

\* generate_report, lines 923-927: one pass of the loop, download_file returns.
DownloadSucceeds ==
    /\ pc = "download"
    /\ Len(files) < Len(urls)
    /\ LET n == Len(files)
           u == urls[n + 1]
       IN  /\ temp_dir' = WriteBytes(temp_dir, Filename(u, n), u.url)
           /\ files' = Append(files, DownloadedEntry(u, Filename(u, n)))
    /\ downloads' = downloads + 1
    /\ UNCHANGED << PyPDF2, ocr, first, runs, request, response, source, pc,
                    patient, urls, extracted_texts, j, stage1_input,
                    stage1_calls, extracted_data, stage2_input, stage2_calls,
                    resp2, analysis, report, error >>

\* Mutant of DownloadFails: the entry of a failed download is put in front of
\* the entries built so far.
DownloadFailsPrepends ==
    /\ pc = "download"
    /\ Len(files) < Len(urls)
    /\ LET n == Len(files)
           u == urls[n + 1]
       IN  \E failure \in DownloadFailures :
              /\ files' = << FailedEntry(u, ExceptionText(failure)) >> \o files
              /\ temp_dir' =
                    IF failure = "write"
                    THEN WriteBytes(temp_dir, Filename(u, n), <<>>)
                    ELSE temp_dir
    /\ downloads' = downloads + 1
    /\ UNCHANGED << PyPDF2, ocr, first, runs, request, response, source, pc,
                    patient, urls, extracted_texts, j, stage1_input,
                    stage1_calls, extracted_data, stage2_input, stage2_calls,
                    resp2, analysis, report, error >>

\* generate_report, lines 923-930: one pass of the loop, download_file raises
\* and the except clause records the reference.
DownloadFails ==
    /\ pc = "download"
    /\ Len(files) < Len(urls)
    /\ LET n == Len(files)
           u == urls[n + 1]
       IN  \E failure \in DownloadFailures :
              /\ files' = Append(files, FailedEntry(u, ExceptionText(failure)))
              /\ temp_dir' =
                    IF failure = "write"
                    THEN WriteBytes(temp_dir, Filename(u, n), <<>>)
                    ELSE temp_dir
    /\ downloads' = downloads + 1
    /\ UNCHANGED << PyPDF2, ocr, first, runs, request, response, source, pc,
                    patient, urls, extracted_texts, j, stage1_input,
                    stage1_calls, extracted_data, stage2_input, stage2_calls,
                    resp2, analysis, report, error >>

\* generate_report, line 932, and analyze_with_openai, line 193: the loop is
\* over and extract_text_from_files is entered.
StartAnalysis ==
    /\ pc = "download"
    /\ Len(files) = Len(urls)
    /\ pc' = "extract"
    /\ extracted_texts' = <<>>
    /\ j' = 0
    /\ UNCHANGED << PyPDF2, ocr, first, runs, request, response, source,
                    patient, urls, files, temp_dir, downloads, stage1_input,
                    stage1_calls, extracted_data, stage2_input, stage2_calls,
                    resp2, analysis, report, error >>

\* Mutant of ExtractFile: an exception of the PDF backend is not caught and
\* leaves extract_text_from_files.
ExtractFileRaises ==
    /\ pc = "extract"
    /\ j < Len(files)
    /\ LET f == files[j + 1]
           content == IF Truthy(f.path) THEN ReadBytes(temp_dir, f.path[1])
                      ELSE <<>>
       IN  \E po \in PdfOutcomes, oo \in OcrOutcomes :
              IF PyPDF2 /\ f.type = PDF /\ Truthy(f.path) /\ po = "error"
              THEN /\ extracted_texts' = extracted_texts
                   /\ pc' = "failed"
                   /\ error' = <<"PdfReadError">>
              ELSE /\ extracted_texts' =
                         extracted_texts \o
                         ExtractOne(f, j + 1,
                                    IF PyPDF2 THEN PdfText(po, content) ELSE <<>>,
                                    IF ocr THEN OcrText(oo, content) ELSE <<>>)
                   /\ pc' = pc
                   /\ error' = error
    /\ j' = j + 1
    /\ UNCHANGED << PyPDF2, ocr, first, runs, request, response, source,
                    patient, urls, files, temp_dir, downloads, stage1_input,
                    stage1_calls, extracted_data, stage2_input, stage2_calls,
                    resp2, analysis, report >>

\* extract_text_from_files, lines 113-135: one pass of the loop.  A backend
\* that is not installed is not called: extract_text_from_pdf returns "" and
\* ocr_text stays "".
ExtractFile ==
    /\ pc = "extract"
    /\ j < Len(files)
    /\ LET f == files[j + 1]
           content == IF Truthy(f.path) THEN ReadBytes(temp_dir, f.path[1])
                      ELSE <<>>
       IN  \E po \in PdfOutcomes, oo \in OcrOutcomes :
              extracted_texts' =
                  extracted_texts \o
                  ExtractOne(f, j + 1,
                             IF PyPDF2 THEN PdfText(po, content) ELSE <<>>,
                             IF ocr THEN OcrText(oo, content) ELSE <<>>)
    /\ j' = j + 1
    /\ UNCHANGED << PyPDF2, ocr, first, runs, request, response, source, pc,
                    patient, urls, files, temp_dir, downloads, stage1_input,
                    stage1_calls, extracted_data, stage2_input, stage2_calls,
                    resp2, analysis, report, error >>

\* Mutant of Stage1: an exception of the Stage 1 call is caught and the run
\* goes on to Stage 2 with an empty extraction.
Stage1FailureIgnored ==
    /\ pc = "extract"
    /\ j = Len(files)
    /\ stage1_input' =
          << [patient |-> patient[1],
              extracted_text |-> extracted_texts,
              images |-> InlineImages(files, temp_dir, 1)] >>
    /\ stage1_calls' = stage1_calls + 1
    /\ \/ \E content \in Stage1Outputs :
             /\ extracted_data' = <<content>>
             /\ pc' = "stage2"
             /\ error' = error
       \/ /\ extracted_data' = << <<>> >>
          /\ pc' = "stage2"
          /\ error' = error
    /\ UNCHANGED << PyPDF2, ocr, first, runs, request, response, source,
                    patient, urls, files, temp_dir, downloads,
                    extracted_texts, j, stage2_input, stage2_calls, resp2,
                    analysis, report >>

\* analyze_with_openai, lines 196-261: the Stage 1 messages are built from the
\* registration data, the extracted text and the downloaded images, and the
\* Stage 1 call returns its content or raises.
Stage1 ==
    /\ pc = "extract"
    /\ j = Len(files)
    /\ stage1_input' =
          << [patient |-> patient[1],
              extracted_text |-> extracted_texts,
              images |-> InlineImages(files, temp_dir, 1)] >>
    /\ stage1_calls' = stage1_calls + 1
    /\ \/ \E content \in Stage1Outputs :
             /\ extracted_data' = <<content>>
             /\ pc' = "stage2"
             /\ error' = error
       \/ /\ extracted_data' = extracted_data
          /\ pc' = "failed"
          /\ error' = <<"APIError">>
    /\ UNCHANGED << PyPDF2, ocr, first, runs, request, response, source,
                    patient, urls, files, temp_dir, downloads,
                    extracted_texts, j, stage2_input, stage2_calls, resp2,
                    analysis, report >>

\* Mutant of Stage2: a Stage 2 call that raised is issued once more.
Stage2Retried ==
    /\ pc = "stage2"
    /\ stage2_calls < 2
    /\ stage2_input' =
          << [extracted_data |-> extracted_data[1], patient |-> patient[1]] >>
    /\ stage2_calls' = stage2_calls + 1
    /\ \/ /\ pc' = IF stage2_calls = 0 THEN "stage2" ELSE "failed"
          /\ error' = IF stage2_calls = 0 THEN error ELSE <<"APIError">>
          /\ UNCHANGED << resp2, analysis, report >>
       \/ \E content \in Stage2Contents :
             /\ resp2' = <<content>>
             /\ IF json_loads(content).ok
                THEN /\ analysis' = << json_loads(content).val >>
                     /\ report' =
                           << BuildReport(UserId, json_loads(content).val, files) >>
                     /\ pc' = "done"
                     /\ error' = error
                ELSE /\ pc' = "failed"
                     /\ error' = <<"JSONDecodeError">>
                     /\ UNCHANGED << analysis, report >>
    /\ UNCHANGED << PyPDF2, ocr, first, runs, request, response, source,
                    patient, urls, files, temp_dir, downloads,
                    extracted_texts, j, stage1_input, stage1_calls,
                    extracted_data >>

\* analyze_with_openai, lines 264-809, and generate_report, lines 932-950: the
\* Stage 2 call raises, or returns a content that json.loads rejects, or one
\* that it decodes, and then the report is assembled and returned.
Stage2 ==
    /\ pc = "stage2"
    /\ stage2_input' =
          << [extracted_data |-> extracted_data[1], patient |-> patient[1]] >>
    /\ stage2_calls' = stage2_calls + 1
    /\ \/ /\ pc' = "failed"
          /\ error' = <<"APIError">>
          /\ UNCHANGED << resp2, analysis, report >>
       \/ \E content \in Stage2Contents :
             /\ resp2' = <<content>>
             /\ IF json_loads(content).ok
                THEN /\ analysis' = << json_loads(content).val >>
                     /\ report' =
                           << BuildReport(UserId, json_loads(content).val, files) >>
                     /\ pc' = "done"
                     /\ error' = error
                ELSE /\ pc' = "failed"
                     /\ error' = <<"JSONDecodeError">>
                     /\ UNCHANGED << analysis, report >>
    /\ UNCHANGED << PyPDF2, ocr, first, runs, request, response, source,
                    patient, urls, files, temp_dir, downloads,
                    extracted_texts, j, stage1_input, stage1_calls,
                    extracted_data >>

\* ------------------------------------------------------- analyze_file_only

\* The uploads analyze_file_only is called for: the file's name in the scratch
\* directory and the file_type the caller derived from its suffix.
LabsPdfName == <<"l", "a", "b", "s", ".", "p", "d", "f">>
ScanPngName == <<"s", "c", "a", "n", ".", "p", "n", "g">>

Uploads ==
    { [name |-> LabsPdfName, type |-> PDF],
      [name |-> ScanPngName, type |-> IMAGE] }

\* The bytes of an upload: the text they hold, and what each backend makes of
\* them (a file's bytes decide what PyPDF2 and pytesseract return for it).
UploadContents ==
    [data : { <<"Hb 12.1 g/dL">> }, pdf : PdfOutcomes, ocr : OcrOutcomes]

\* analyze_file_only, lines 813-818: the one entry of files.
FileEntry(file_path, file_type) ==
    [url |-> file_path, field |-> file_path, type |-> file_type,
     path |-> <<file_path>>]

\* Mutant of FileStage1Input: the Stage 1 text names the run it belongs to.
FileStage1InputPerRun(fs, dir, texts) ==
    [extracted_text |->
        texts \o << [src |-> 0, label |-> "run", field |-> <<>>, type |-> <<>>,
                     text |-> IF first = <<>> THEN <<"1">> ELSE <<"2">>] >>,
     images |->
        IF fs[1].type = IMAGE
        THEN << [src |-> 1, data |-> ReadBytes(dir, fs[1].path[1])] >>
        ELSE <<>>]

\* analyze_file_only, lines 823-862: the user content of the Stage 1 call,
\* the extracted text and, for file_type 'image', the file inline.
FileStage1Input(fs, dir, texts) ==
    [extracted_text |-> texts,
     images |->
        IF fs[1].type = IMAGE
        THEN << [src |-> 1, data |-> ReadBytes(dir, fs[1].path[1])] >>
        ELSE <<>>]

\* What the earlier run kept under `key`, if there was an earlier run.
Earlier(key) == IF first # <<>> THEN first[1][key] ELSE <<>>

\* A deterministic generative backend: a call whose input is the input of the
\* earlier run's call (kept under sent) returns what it returned then (kept
\* under received) and does not raise; any other call returns any of the
\* contents or raises.
Replayed(input, sent) == first # <<>> /\ input = Earlier(sent)

Stubbed(input, sent, received, contents) ==
    IF Replayed(input, sent) THEN { Earlier(received) } ELSE contents

\* analyze_file_only, line 820: extract_text_from_files over the one entry.
FileExtract ==
    /\ pc = "file_extract"
    /\ LET f == files[1]
           content == ReadBytes(temp_dir, f.path[1])
       IN  extracted_texts' =
              ExtractOne(f, 1,
                         IF PyPDF2 THEN PdfText(content.pdf, content.data)
                         ELSE <<>>,
                         IF ocr THEN OcrText(content.ocr, content.data)
                         ELSE <<>>)
    /\ j' = 1
    /\ pc' = "file_stage1"
    /\ UNCHANGED << PyPDF2, ocr, first, runs, request, response, source,
                    patient, urls, files, temp_dir, downloads, stage1_input,
                    stage1_calls, extracted_data, stage2_input, stage2_calls,
                    resp2, analysis, report, error >>

\* analyze_file_only, lines 823-870: the Stage 1 call returns its content or
\* raises.
FileStage1 ==
    /\ pc = "file_stage1"
    /\ LET input == FileStage1Input(files, temp_dir, extracted_texts) IN
       /\ stage1_input' = << input >>
       /\ \/ \E content \in Stubbed(input, "stage1_input", "extracted_data",
                                      Stage1Outputs) :
                /\ extracted_data' = <<content>>
                /\ pc' = "file_stage2"
                /\ error' = error
          \/ /\ ~Replayed(input, "stage1_input")
             /\ extracted_data' = extracted_data
             /\ pc' = "failed"
             /\ error' = <<"APIError">>
    /\ stage1_calls' = stage1_calls + 1
    /\ UNCHANGED << PyPDF2, ocr, first, runs, request, response, source,
                    patient, urls, files, temp_dir, downloads,
                    extracted_texts, j, stage2_input, stage2_calls, resp2,
                    analysis, report >>

\* analyze_file_only, lines 873-915: the Stage 2 call raises, or returns a
\* content that json.loads rejects, or one that it decodes and returns.
FileStage2 ==
    /\ pc = "file_stage2"
    /\ LET input == [extracted_data |-> extracted_data[1]] IN
       /\ stage2_input' = << input >>
       /\ \/ /\ ~Replayed(input, "stage2_input")
             /\ pc' = "failed"
             /\ error' = <<"APIError">>
             /\ UNCHANGED << resp2, analysis >>
          \/ \E content \in Stubbed(input, "stage2_input", "resp2",
                                      Stage2Contents) :
                /\ resp2' = <<content>>
                /\ IF json_loads(content).ok
                   THEN /\ analysis' = << json_loads(content).val >>
                        /\ pc' = "file_done"
                        /\ error' = error
                   ELSE /\ pc' = "failed"
                        /\ error' = <<"JSONDecodeError">>
                        /\ analysis' = analysis
    /\ stage2_calls' = stage2_calls + 1
    /\ UNCHANGED << PyPDF2, ocr, first, runs, request, response, source,
                    patient, urls, files, temp_dir, downloads,
                    extracted_texts, j, stage1_input, stage1_calls,
                    extracted_data, report >>

\* analyze_file_only is called once more for the same file and file_type
\* after it returned; what the earlier run sent and received is kept.
FileRerun ==
    /\ pc = "file_done"
    /\ first = <<>>
    /\ first' = << [stage1_input |-> stage1_input[1],
                    extracted_data |-> extracted_data[1],
                    stage2_input |-> stage2_input[1],
                    resp2 |-> resp2[1],
                    analysis |-> analysis[1]] >>
    /\ pc' = "file_extract"
    /\ extracted_texts' = <<>>
    /\ j' = 0
    /\ stage1_input' = <<>>
    /\ stage1_calls' = 0
    /\ extracted_data' = <<>>
    /\ stage2_input' = <<>>
    /\ stage2_calls' = 0
    /\ resp2' = <<>>
    /\ analysis' = <<>>
    /\ UNCHANGED << PyPDF2, ocr, runs, request, response, source, patient,
                    urls, files, temp_dir, downloads, report, error >>

\* -------------------------------------------------------- concurrent runs

\* generate_report runs as a coroutine per request; every await (a download,
\* a read in a worker thread) is a point where another request's coroutine
\* runs.  All requests share the scratch directory temp_medical_files.
RunIds == 1..MaxRuns

\* The records of the patients of concurrent requests: one field, the same
\* in every record, holding one of two PDFs, an image or a plain string.
RunRecords ==
    { JsonDict(<< Entry(FieldKey(1), v) >>) :
        v \in { JsonStr(PdfUrl), JsonStr(HostedExampleUrl), JsonStr(ImageUrl),
                JsonStr(PlainName) } }

\* The variables the concurrent runs leave alone.
single_run_vars ==
    << PyPDF2, ocr, source, pc, patient, urls, files, downloads,
       extracted_texts, j, stage1_input, stage1_calls, extracted_data,
       stage2_input, stage2_calls, resp2, analysis, report, error, first,
       request, response >>

\* generate_report, line 920, in run r.
RunResolve ==
    \E r \in RunIds :
        /\ runs[r].pc = "resolve"
        /\ runs' = [runs EXCEPT
                       ![r].urls = extract_cloudinary_urls(runs[r].patient),
                       ![r].pc = "download"]
        /\ UNCHANGED << temp_dir, single_run_vars >>

\* generate_report, lines 923-927, in run r: download_file returns.
RunDownloadSucceeds ==
    \E r \in RunIds :
        /\ runs[r].pc = "download"
        /\ Len(runs[r].files) < Len(runs[r].urls)
        /\ LET n == Len(runs[r].files)
               u == runs[r].urls[n + 1]
           IN  /\ temp_dir' = WriteBytes(temp_dir, Filename(u, n), u.url)
               /\ runs' = [runs EXCEPT
                              ![r].files =
                                  Append(@, DownloadedEntry(u, Filename(u, n)))]
        /\ UNCHANGED single_run_vars

\* generate_report, lines 923-930, in run r: download_file raises.
RunDownloadFails ==
    \E r \in RunIds :
        /\ runs[r].pc = "download"
        /\ Len(runs[r].files) < Len(runs[r].urls)
        /\ LET n == Len(runs[r].files)
               u == runs[r].urls[n + 1]
           IN  \E failure \in DownloadFailures :
                  /\ runs' = [runs EXCEPT
                                 ![r].files =
                                     Append(@, FailedEntry(u, ExceptionText(failure)))]
                  /\ temp_dir' =
                        IF failure = "write"
                        THEN WriteBytes(temp_dir, Filename(u, n), <<>>)
                        ELSE temp_dir
        /\ UNCHANGED single_run_vars

\* generate_report, line 932, in run r: the loop is over.
RunStartAnalysis ==
    \E r \in RunIds :
        /\ runs[r].pc = "download"
        /\ Len(runs[r].files) = Len(runs[r].urls)
        /\ runs' = [runs EXCEPT ![r].pc = "extract"]
        /\ UNCHANGED << temp_dir, single_run_vars >>

\* extract_text_from_files and the image loop of analyze_with_openai, in run
\* r: the next file is opened at its path if it is a PDF or an image that
\* has one (lines 98, 141, 85), and what was read is kept.
RunExtract ==
    \E r \in RunIds :
        /\ runs[r].pc = "extract"
        /\ runs[r].j < Len(runs[r].files)
        /\ LET f == runs[r].files[runs[r].j + 1] IN
           runs' = [runs EXCEPT
                      ![r].j = @ + 1,
                      ![r].read =
                          IF f.type \in { PDF, IMAGE } /\ Truthy(f.path)
                          THEN Append(@, [src |-> runs[r].j + 1,
                                          data |-> ReadBytes(temp_dir, f.path[1])])
                          ELSE @]
        /\ UNCHANGED << temp_dir, single_run_vars >>

\* analyze_with_openai in run r: every file was handled; the generative
\* calls follow.
RunAnalyse ==
    \E r \in RunIds :
        /\ runs[r].pc = "extract"
        /\ runs[r].j = Len(runs[r].files)
        /\ runs' = [runs EXCEPT ![r].pc = "analysed"]
        /\ UNCHANGED << temp_dir, single_run_vars >>

\* ---------------------------------------------------------------- endpoints

\* Names of uploads the single-document endpoint is sent besides the two
\* above: a suffix in upper case, and one that is not accepted.
ScanJpegName == <<"S", "C", "A", "N", ".", "J", "P", "E", "G">>
NotesTxtName == <<"n", "o", "t", "e", "s", ".", "t", "x", "t">>

UploadNames == { LabsPdfName, ScanPngName, ScanJpegName, NotesTxtName }

\* endpoints/medical_report.py, line 30.
ValidExtensions ==
    { <<".", "p", "d", "f">>, <<".", "j", "p", "g">>, <<".", "j", "p", "e", "g">>,
      <<".", "p", "n", "g">>, <<".", "g", "i", "f">>, <<".", "w", "e", "b", "p">> }

\* Path(name).suffix: from the last '.', unless the name starts with it.
Suffix(name) ==
    LET dots == { n \in 2..Len(name) : name[n] = "." } IN
    IF dots = {} THEN <<>>
    ELSE SubSeq(name, CHOOSE n \in dots : \A m \in dots : m <= n, Len(name))

\* The requests the two handlers are given.
Requests ==
    { [route |-> "generate-report", user_id |-> UserId, filename |-> <<>>,
       body |-> <<>>] }
    \cup { [route |-> "analyze-file-for-test", user_id |-> <<>>,
            filename |-> name, body |-> body] :
            name \in UploadNames, body \in UploadContents }

\* What calling an `async def` method without awaiting it evaluates to: a
\* coroutine object of that method.  None of the method's code has run.
Coroutine(method) == [coroutine |-> method]

\* What the web framework answers when a handler returns `value`.  A value
\* that holds a coroutine object is no JSON: the framework's serialisation
\* of it either fails (its own 500) or renders the object in some way; it
\* never holds what the coroutine would have returned.
Responses(value) ==
    { [status |-> 500, detail |-> <<"Internal Server Error">>, body |-> <<>>],
      [status |-> 200, detail |-> <<>>, body |-> << value >>] }

\* HTTPException(status_code, detail) raised by a handler.
HttpError(status, detail) ==
    [status |-> status, detail |-> detail, body |-> <<>>]

\* endpoints/medical_report.py, lines 9-16: the handler of /generate-report,
\* a plain `def`.  service.generate_report(...) is called without await, so
\* the handler gets a coroutine object, no exception reaches its except
\* clause, and it returns that object.
GenerateReportEndpoint ==
    /\ request # <<>>
    /\ request[1].route = "generate-report"
    /\ response = <<>>
    /\ \E resp \in Responses(Coroutine("generate_report")) :
          response' = << resp >>
    /\ UNCHANGED << PyPDF2, ocr, first, runs, request, source, pc, patient,
                    urls, files, temp_dir, downloads, extracted_texts, j,
                    stage1_input, stage1_calls, extracted_data, stage2_input,
                    stage2_calls, resp2, analysis, report, error >>

\* endpoints/medical_report.py, lines 18-65: the handler of
\* /analyze-file-for-test, a plain `def`.  It rejects a suffix that is not
\* accepted (400), writes the upload into the scratch directory (an error
\* of the write is answered with 500 and its message), calls
\* analyze_file_only without await and returns a dict that holds the
\* coroutine object under medical_analysis.
AnalyzeFileEndpoint ==
    /\ request # <<>>
    /\ request[1].route = "analyze-file-for-test"
    /\ response = <<>>
    /\ LET name == request[1].filename
           file_extension == Lower(Suffix(name))
           file_type == IF file_extension = <<".", "p", "d", "f">> THEN PDF
                        ELSE IMAGE
       IN  IF file_extension \notin ValidExtensions
           THEN /\ response' = << HttpError(400, <<"Invalid file type">>) >>
                /\ temp_dir' = temp_dir
           ELSE \/ /\ temp_dir' = WriteBytes(temp_dir, name, <<>>)
                   /\ response' =
                         << HttpError(500, ExceptionText("write")) >>
                \/ /\ temp_dir' = WriteBytes(temp_dir, name, request[1].body)
                   /\ \E resp \in
                          Responses([filename |-> name, file_type |-> file_type,
                                     medical_analysis |->
                                         Coroutine("analyze_file_only")]) :
                          response' = << resp >>
    /\ UNCHANGED << PyPDF2, ocr, first, runs, request, source, pc, patient,
                    urls, files, downloads, extracted_texts, j, stage1_input,
                    stage1_calls, extracted_data, stage2_input, stage2_calls,
                    resp2, analysis, report, error >>

\* --------------------------------------------------------- specifications

\* One run of generate_report for a user whose record is any of the patient
\* records, with either backend installed or not.
Init ==
    /\ PyPDF2 \in BOOLEAN
    /\ ocr \in BOOLEAN
    /\ source \in PatientRecords
    /\ patient = <<>>
    /\ pc = "fetch"
    /\ InitRun

Next ==
    \/ FetchPatient
    \/ Resolve
    \/ DownloadSucceeds
    \/ DownloadFails
    \/ StartAnalysis
    \/ ExtractFile
    \/ Stage1
    \/ Stage2

Spec == Init /\ [][Next]_vars

\* analyze_file_only for an upload in the scratch directory, twice.
InitFile ==
    /\ PyPDF2 \in BOOLEAN
    /\ ocr \in BOOLEAN
    /\ source = JsonDict(<<>>)
    /\ patient = <<>>
    /\ pc = "file_extract"
    /\ \E up \in Uploads, content \in UploadContents :
          /\ files = << FileEntry(up.name, up.type) >>
          /\ temp_dir = { [name |-> up.name, content |-> content] }
    /\ urls = <<>>
    /\ downloads = 0
    /\ extracted_texts = <<>>
    /\ j = 0
    /\ stage1_input = <<>>
    /\ stage1_calls = 0
    /\ extracted_data = <<>>
    /\ stage2_input = <<>>
    /\ stage2_calls = 0
    /\ resp2 = <<>>
    /\ analysis = <<>>
    /\ report = <<>>
    /\ error = <<>>
    /\ first = <<>>
    /\ runs = <<>>
    /\ request = <<>>
    /\ response = <<>>

NextFile ==
    \/ FileExtract
    \/ FileStage1
    \/ FileStage2
    \/ FileRerun

SpecFile == InitFile /\ [][NextFile]_vars

\* Requests of both kinds: a patient report, or a single document.
InitRequests == Init \/ InitFile

NextRequests ==
    \/ FetchPatient
    \/ Resolve
    \/ DownloadSucceeds
    \/ DownloadFails
    \/ StartAnalysis
    \/ ExtractFile
    \/ Stage1
    \/ Stage2
    \/ FileExtract
    \/ FileStage1
    \/ FileStage2
    \/ FileRerun

SpecRequests == InitRequests /\ [][NextRequests]_vars

\* MaxRuns requests at once, each past its fetch, sharing the scratch
\* directory.
InitConcurrent ==
    /\ PyPDF2 = TRUE
    /\ ocr = TRUE
    /\ source = JsonDict(<<>>)
    /\ patient = <<>>
    /\ pc = "concurrent"
    /\ urls = <<>>
    /\ files = <<>>
    /\ temp_dir = {}
    /\ downloads = 0
    /\ extracted_texts = <<>>
    /\ j = 0
    /\ stage1_input = <<>>
    /\ stage1_calls = 0
    /\ extracted_data = <<>>
    /\ stage2_input = <<>>
    /\ stage2_calls = 0
    /\ resp2 = <<>>
    /\ analysis = <<>>
    /\ report = <<>>
    /\ error = <<>>
    /\ first = <<>>
    /\ request = <<>>
    /\ response = <<>>
    /\ \E records \in [RunIds -> RunRecords] :
          runs = [r \in RunIds |->
                    [pc |-> "resolve", patient |-> records[r], urls |-> <<>>,
                     files |-> <<>>, j |-> 0, read |-> <<>>]]

NextConcurrent ==
    \/ RunResolve
    \/ RunDownloadSucceeds
    \/ RunDownloadFails
    \/ RunStartAnalysis
    \/ RunExtract
    \/ RunAnalyse

SpecConcurrent == InitConcurrent /\ [][NextConcurrent]_vars

\* The resolver applied to the records of one generated URL: _guess_type on
\* every URL of up to MaxChunks chunks.
InitGuess ==
    /\ PyPDF2 = TRUE
    /\ ocr = TRUE
    /\ source \in GuessRecords(MaxChunks)
    /\ patient = <<source>>
    /\ pc = "resolve"
    /\ InitRun

SpecGuess == InitGuess /\ [][Resolve]_vars

\* A run from its resolved record to the end of its download loop.
InitScratch ==
    /\ PyPDF2 = TRUE
    /\ ocr = TRUE
    /\ source \in ScratchRecords(MaxNodes)
    /\ patient = <<source>>
    /\ pc = "resolve"
    /\ InitRun

NextScratch ==
    \/ Resolve
    \/ DownloadSucceeds
    \/ DownloadFails
    \/ StartAnalysis

SpecScratch == InitScratch /\ [][NextScratch]_vars

\* One HTTP request to either endpoint.  The service's coroutine for it has
\* not started.
InitEndpoint ==
    /\ PyPDF2 \in BOOLEAN
    /\ ocr \in BOOLEAN
    /\ request \in { << r >> : r \in Requests }
    /\ IF request[1].route = "generate-report"
       THEN source \in PatientRecords
       ELSE source = JsonDict(<<>>)
    /\ response = <<>>
    /\ patient = <<>>
    /\ pc = "not_started"
    /\ urls = <<>>
    /\ files = <<>>
    /\ temp_dir = {}
    /\ downloads = 0
    /\ extracted_texts = <<>>
    /\ j = 0
    /\ stage1_input = <<>>
    /\ stage1_calls = 0
    /\ extracted_data = <<>>
    /\ stage2_input = <<>>
    /\ stage2_calls = 0
    /\ resp2 = <<>>
    /\ analysis = <<>>
    /\ report = <<>>
    /\ error = <<>>
    /\ first = <<>>
    /\ runs = <<>>

NextEndpoint ==
    \/ GenerateReportEndpoint
    \/ AnalyzeFileEndpoint

SpecEndpoint == InitEndpoint /\ [][NextEndpoint]_vars

\* The resolver alone, applied to every nested record of up to MaxNodes nodes.
InitResolver ==
    /\ PyPDF2 = TRUE
    /\ ocr = TRUE
    /\ source \in NestedRecords(MaxNodes)
    /\ patient = <<source>>
    /\ pc = "resolve"
    /\ InitRun

SpecResolver == InitResolver /\ [][Resolve]_vars

\* ----------------------------------------------------------------- claims

\* The positions of the nodes of a JSON value: the child indices from the root.
RECURSIVE Positions(_)
Positions(obj) ==
    { <<>> } \cup
    UNION { { <<n>> \o p : p \in Positions(obj.items[n].node) } :
            n \in 1..Len(obj.items) }

RECURSIVE NodeAt(_, _)
NodeAt(obj, pos) ==
    IF pos = <<>> THEN obj ELSE NodeAt(obj.items[pos[1]].node, Tail(pos))

\* The positions of the string leaves that match the hosting-provider pattern.
MatchingLeaves(obj) ==
    { p \in Positions(obj) :
        NodeAt(obj, p).tag = "str" /\ IsCloudinary(NodeAt(obj, p).val) }

\* Depth-first order of two leaves: map entries in their given order, list
\* elements by index.
Before(p, q) ==
    \E n \in 1..Len(p) :
        /\ n <= Len(q)
        /\ SubSeq(p, 1, n - 1) = SubSeq(q, 1, n - 1)
        /\ p[n] < q[n]

\* The references of the fetched record are resolved.
Resolved == patient # <<>> /\ pc # "resolve"

\* C1: the resolver returns exactly one reference per string leaf that matches
\* the hosting-provider pattern and nothing else, in depth-first order: the
\* output is as long as there are matching leaves, and the reference at rank r
\* carries the value of the r-th matching leaf in depth-first order.
C1_OneReferencePerMatchingLeaf ==
    Resolved =>
        LET M == MatchingLeaves(patient[1]) IN
        /\ Len(urls) = Cardinality(M)
        /\ \A p \in M :
              urls[1 + Cardinality({ q \in M : Before(q, p) })].url
                  = NodeAt(patient[1], p).val

\* C1 witness: a resolved record with two matching leaves of different values,
\* one of them a list element, and a string leaf that does not match.
C1_Witness ==
    /\ Resolved
    /\ Len(urls) = 2
    /\ urls[1].url # urls[2].url
    /\ \E p \in MatchingLeaves(patient[1]) :
          p # <<>> /\ NodeAt(patient[1], SubSeq(p, 1, Len(p) - 1)).tag = "list"
    /\ \E p \in Positions(patient[1]) :
          NodeAt(patient[1], p).tag = "str" /\ p \notin MatchingLeaves(patient[1])

\* C2: within one resolution pass two references at different positions never
\* carry the same field_path, also when map keys hold '.', '[' or ']'.
C2_FieldPathUnique ==
    Resolved =>
        \A x, y \in 1..Len(urls) : x # y => urls[x].field # urls[y].field

\* The fragments of the Stage 1 input that were built from files[n].
FragmentsOf(n) ==
    { k \in 1..Len(stage1_input[1].extracted_text) :
        stage1_input[1].extracted_text[k].src = n }

\* The inline images of the Stage 1 input that were read from files[n].
ImagesOf(n) ==
    { k \in 1..Len(stage1_input[1].images) : stage1_input[1].images[k].src = n }

\* The labels of the fragments that carry text extracted from a file, and of
\* those that are a placeholder note.
TextLabels == { "pdf_text", "ocr_text" }
NoteLabels == { "image_note", "file_note" }

\* C3: every retrieved-asset entry has exactly one of 'path' and 'error'
\* populated (holding a value that is not empty), never both and never
\* neither, whatever the outcome of the download.
C3_ExactlyOnePopulated ==
    \A n \in 1..Len(files) :
        Truthy(files[n].path) # Truthy(files[n].error)

\* C4: a failure while retrieving one asset never aborts the batch or the
\* request: a pass of the download loop, whether download_file returns or
\* raises, records the reference and continues with no error raised; once the
\* loop is over every reference was attempted, in order; and a request that
\* failed, failed at the record fetch (before any download) or in a
\* generative stage.
C4_RetrievalFailureNeverAborts ==
    [][ /\ (pc = "download" /\ Len(files) < Len(urls)) =>
             /\ pc' = "download"
             /\ Len(files') = Len(files) + 1
             /\ files'[Len(files')].url = urls[Len(files')].url
             /\ error' = <<>>
        /\ pc' \in { "extract", "stage2", "done" } =>
             /\ downloads' = Len(urls')
             /\ Len(files') = Len(urls')
        /\ pc' = "failed" =>
             \/ error' = <<"ClientError">> /\ downloads' = 0
             \/ error' \in { <<"APIError">>, <<"JSONDecodeError">> }
                  /\ stage1_calls' = 1 /\ Len(files') = Len(urls')
      ]_vars

\* C4 witness: a report is returned by a run in which a download failed and
\* a later reference was downloaded.
C4_Witness ==
    /\ pc = "done"
    /\ report # <<>>
    /\ \E n, m \in 1..Len(files) :
          n < m /\ files[n].error # <<>> /\ Truthy(files[m].path)

\* C5: for every asset whose retrieval failed, the report's files_analyzed
\* entry has status 'error', and the Stage 1 input holds neither text
\* extracted from it nor an inline image of it, while it holds the whole
\* registration record.
C5_FailedAssetExcluded ==
    \A n \in 1..Len(files) :
        files[n].error # <<>> =>
            /\ stage1_input # <<>> =>
                  /\ \A k \in FragmentsOf(n) :
                        stage1_input[1].extracted_text[k].label \notin TextLabels
                  /\ ImagesOf(n) = {}
                  /\ stage1_input[1].patient = source
            /\ report # <<>> =>
                  /\ report[1].files_analyzed[n].status = "error"
                  /\ report[1].files_analyzed[n].url = files[n].url

\* C5 witness: a report of a run in which one download failed and another
\* file's text reached Stage 1.
C5_Witness ==
    /\ report # <<>>
    /\ \E n, m \in 1..Len(files) :
          /\ files[n].error # <<>>
          /\ \E k \in FragmentsOf(m) :
                stage1_input[1].extracted_text[k].label \in TextLabels

\* A Stage 2 content that was cut short.
IsTruncated(content) ==
    \E v \in Stage2Payloads :
        /\ Len(content) < Len(Dumps(v))
        /\ content = SubSeq(Dumps(v), 1, Len(content))

\* C6: if the Stage 2 response does not parse as JSON (it was cut short),
\* generate_report fails with JSONDecodeError and no report, partial or
\* otherwise, is assembled or returned.
C6_MalformedStage2Fails ==
    (resp2 # <<>> /\ IsTruncated(resp2[1])) =>
        /\ pc = "failed"
        /\ error = <<"JSONDecodeError">>
        /\ analysis = <<>>
        /\ report = <<>>

\* C6 witness: the run failed on a Stage 2 response cut in the middle of the
\* object.
C6_Witness ==
    /\ pc = "failed"
    /\ resp2 # <<>>
    /\ IsTruncated(resp2[1])
    /\ Len(resp2[1]) > 4

\* The member names of a decoded JSON object.
KeysOf(v) == { v.items[n].key : n \in 1..Len(v.items) }

\* C7: in every report that generate_report returns, medical_analysis holds
\* every mandatory core key, for any JSON object the Stage 2 call returns.
C7_MandatoryKeysPresent ==
    report # <<>> =>
        \A n \in 1..Len(MandatoryKeys) :
            << MandatoryKeys[n] >> \in KeysOf(report[1].medical_analysis)

\* C8: if the OCR and PDF backends are both unavailable, every asset that has
\* a local path still yields one fragment with a note in the text given to
\* Stage 1, PDF assets included.
C8_EveryAssetYieldsNote ==
    (~PyPDF2 /\ ~ocr /\ stage1_input # <<>>) =>
        \A n \in 1..Len(files) :
            Truthy(files[n].path) =>
                /\ Cardinality(FragmentsOf(n)) = 1
                /\ \A k \in FragmentsOf(n) :
                      stage1_input[1].extracted_text[k].label \in NoteLabels

\* C9: for a patient record with no string that matches the hosting-provider
\* pattern, the resolver returns the empty sequence, no download is attempted
\* and nothing is written, the Stage 1 call holds the registration data
\* alone (no extracted text, no inline image), and the report that is
\* returned has files_analyzed = [].
C9_NoMatchNoAssets ==
    (patient # <<>> /\ MatchingLeaves(source) = {}) =>
        /\ urls = <<>>
        /\ downloads = 0
        /\ temp_dir = {}
        /\ stage1_input # <<>> =>
              stage1_input[1] =
                  [patient |-> source, extracted_text |-> <<>>, images |-> <<>>]
        /\ report # <<>> => report[1].files_analyzed = <<>>

\* C9 witness: a report is returned for a record that holds strings, none of
\* which matches.
C9_Witness ==
    /\ pc = "done"
    /\ report # <<>>
    /\ MatchingLeaves(source) = {}
    /\ \E p \in Positions(source) : NodeAt(source, p).tag = "str"
    /\ stage1_calls = 1

\* C10 as stated: the record whose field report_url is
\* https://assets.example.com/pdf/labs_12.pdf yields exactly one reference,
\* of field_path report_url and kind pdf.
C10_ScenarioOneReference ==
    (source = ScenarioRecord /\ Resolved) =>
        /\ Len(urls) = 1
        /\ urls[1].field = ReportUrlKey
        /\ urls[1].type = PDF

\* C10, amended: the record whose only string on the hosting provider's
\* domain is the field report_url, https://res.cloudinary.com/pdf/labs_12.pdf,
\* yields exactly one reference, of field_path report_url and kind pdf, and
\* if its fetch succeeds and PDF extraction yields text that is not empty,
\* its files_analyzed entry has status processed; the record of the scenario
\* as stated (assets.example.com) yields no reference.
C10_HostedScenarioOneReference ==
    /\ (source = HostedScenarioRecord /\ Resolved) =>
          /\ urls = << [url |-> HostedExampleUrl, field |-> ReportUrlKey,
                        type |-> PDF] >>
          /\ (/\ report # <<>>
              /\ Truthy(files[1].path)
              /\ \E k \in FragmentsOf(1) :
                    stage1_input[1].extracted_text[k].label = "pdf_text") =>
                report[1].files_analyzed =
                    << [field |-> ReportUrlKey, url |-> HostedExampleUrl,
                        type |-> PDF, status |-> "processed"] >>
    /\ (source = ScenarioRecord /\ Resolved) => urls = <<>>

\* C10 witness: the report of the hosted scenario, the document fetched and
\* its text extracted.
C10_Witness ==
    /\ source = HostedScenarioRecord
    /\ report # <<>>
    /\ Truthy(files[1].path)
    /\ \E k \in FragmentsOf(1) :
          /\ stage1_input[1].extracted_text[k].label = "pdf_text"
          /\ HasText(stage1_input[1].extracted_text[k].text)
    /\ report[1].files_analyzed[1].status = "processed"

\* C11: if fetching the patient record fails, the request fails with that
\* error and nothing else happens: no reference is resolved, no download is
\* attempted and nothing is written, neither generative call is made, and no
\* report is returned.
C11_FetchFailureIsFatal ==
    error = <<"ClientError">> =>
        /\ pc = "failed"
        /\ patient = <<>>
        /\ urls = <<>>
        /\ files = <<>>
        /\ downloads = 0
        /\ temp_dir = {}
        /\ stage1_calls = 0
        /\ stage2_calls = 0
        /\ analysis = <<>>
        /\ report = <<>>

\* C11 witness: the fetch failed for a user whose record holds a hosted asset.
C11_Witness ==
    /\ pc = "failed"
    /\ error = <<"ClientError">>
    /\ MatchingLeaves(source) # {}

\* C12: the report carries under medical_analysis the decoded Stage 2 payload
\* unmodified: it is the JSON object whose serialisation the Stage 2 call
\* returned, every member and value of it, the dynamic laboratory member
\* included, and it is what analyze_with_openai returned.
C12_PayloadUnmodified ==
    report # <<>> =>
        \E v \in Stage2Payloads :
            /\ resp2 = << Dumps(v) >>
            /\ analysis = << v >>
            /\ report[1].medical_analysis = v

\* C12 witness: a report whose Stage 2 payload held every mandatory key and a
\* dynamic laboratory member with a nested category.
C12_Witness ==
    /\ report # <<>>
    /\ resp2 = << Dumps(FullPayload) >>
    /\ \E n \in 1..Len(report[1].medical_analysis.items) :
          /\ report[1].medical_analysis.items[n].key = <<"laboratory_results">>
          /\ report[1].medical_analysis.items[n].node.items # <<>>

\* C13: reference order is preserved through the run.  The retrieved-asset
\* sequence holds, entry by entry, the references in the resolver's order,
\* whether their downloads succeeded or failed, and is complete once the loop
\* is over; files_analyzed has one entry per reference in that order; and
\* the fragments and the inline images given to Stage 1 come in the order of
\* the references they were built from, each naming its reference's field.
C13_ReferenceOrderPreserved ==
    /\ Len(files) <= Len(urls)
    /\ \A n \in 1..Len(files) :
          /\ files[n].url = urls[n].url
          /\ files[n].field = urls[n].field
          /\ files[n].type = urls[n].type
    /\ stage1_input # <<>> =>
          LET text == stage1_input[1].extracted_text
              imgs == stage1_input[1].images
          IN  /\ Len(files) = Len(urls)
              /\ \A k \in 1..Len(text) :
                    /\ text[k].src \in 1..Len(urls)
                    /\ text[k].field = urls[text[k].src].field
              /\ \A k, m \in 1..Len(text) : k < m => text[k].src < text[m].src
              /\ \A k, m \in 1..Len(imgs) : k < m => imgs[k].src < imgs[m].src
    /\ report # <<>> =>
          /\ Len(report[1].files_analyzed) = Len(urls)
          /\ \A n \in 1..Len(urls) :
                /\ report[1].files_analyzed[n].url = urls[n].url
                /\ report[1].files_analyzed[n].field = urls[n].field

\* C13 witness: a report over two references of different kinds, both of
\* which gave a fragment to Stage 1.
C13_Witness ==
    /\ report # <<>>
    /\ Len(urls) = 2
    /\ urls[1].type # urls[2].type
    /\ Len(stage1_input[1].extracted_text) = 2
    /\ stage1_input[1].extracted_text[1].field = urls[1].field
    /\ stage1_input[1].extracted_text[2].field = urls[2].field

\* C14: within one request, of either kind, the Stage 2 call never begins
\* before the Stage 1 call of that request has returned a content: a request
\* that is about to issue or has issued its Stage 2 call has issued exactly
\* one Stage 1 call, which returned; and the Stage 2 input holds exactly the
\* content that Stage 1 call returned.
C14_Stage2AfterStage1 ==
    /\ (pc \in { "stage2", "file_stage2" } \/ stage2_calls > 0) =>
          /\ stage1_calls = 1
          /\ stage1_input # <<>>
          /\ extracted_data # <<>>
          /\ extracted_data[1] \in Stage1Outputs
    /\ stage2_calls > 0 =>
          /\ stage2_input # <<>>
          /\ stage2_input[1].extracted_data = extracted_data[1]
    /\ stage2_calls = 0 => stage2_input = <<>> /\ resp2 = <<>>

\* C14 witness: a single-document request completed, Stage 2 having been
\* given the second of the contents Stage 1 can return.
C14_Witness ==
    /\ pc = "file_done"
    /\ stage2_calls = 1
    /\ stage2_input[1].extracted_data = <<"extraction B">>

\* The scratch paths run r holds in its retrieved-asset entries.
PathsOf(r) ==
    { runs[r].files[n].path[1] :
        n \in { m \in 1..Len(runs[r].files) : Truthy(runs[r].files[m].path) } }

\* C15: under any interleaving of concurrent runs each run creates and reads
\* only its own scratch files: two runs in flight never hold the same scratch
\* path, and what a run reads at one of its paths is what its own download
\* of that reference wrote there.
C15_RunsUseOwnScratchFiles ==
    /\ \A r, q \in RunIds :
          (r # q /\ runs[r].pc # "analysed" /\ runs[q].pc # "analysed") =>
              PathsOf(r) \cap PathsOf(q) = {}
    /\ \A r \in RunIds :
          \A k \in 1..Len(runs[r].read) :
              runs[r].read[k].data = runs[r].files[runs[r].read[k].src].url

\* The mandatory core keys a decoded JSON object holds.
MandatoryIn(v) ==
    { n \in 1..Len(MandatoryKeys) : << MandatoryKeys[n] >> \in KeysOf(v) }

SpecifiedPdfMarkers ==
    { <<".", "p", "d", "f">>, <<"/", "p", "d", "f", "/">> }

SpecifiedImageMarkers ==
    { <<".", "j", "p", "g">>, <<".", "j", "p", "e", "g">>, <<".", "p", "n", "g">>,
      <<".", "g", "i", "f">>, <<".", "w", "e", "b", "p">>,
      <<"/", "i", "m", "a", "g", "e", "/">> }

\* Two characters that are equal or the two cases of one letter.
SameLetter(c, d) ==
    \/ c = d
    \/ \E n \in 1..26 : { c, d } = { UpperChars[n], LowerChars[n] }

\* The URL holds one of the markers, in any mix of cases.
HasMarker(url, markers) ==
    \E x \in markers :
        \E n \in 0..(Len(url) - Len(x)) :
            \A k \in 1..Len(x) : SameLetter(url[n + k], x[k])

\* C17: kind inference is total and case-insensitive: a URL that holds a PDF
\* marker in any case is 'pdf', one that holds an image marker in any case
\* and no PDF marker is 'image', and every other URL is 'unknown'.
C17_GuessTypeByMarker ==
    Resolved =>
        /\ Len(urls) = 1
        /\ urls[1].type =
              IF HasMarker(urls[1].url, SpecifiedPdfMarkers) THEN PDF
              ELSE IF HasMarker(urls[1].url, SpecifiedImageMarkers) THEN IMAGE
              ELSE UNKNOWN

\* C17 witness: a URL classified as an image by a marker that is not in
\* lower case, which also holds parts of a PDF marker that are not joined.
C17_Witness ==
    /\ Resolved
    /\ urls[1].type = IMAGE
    /\ ~(\E x \in SpecifiedImageMarkers : Contains(urls[1].url, x))
    /\ Contains(urls[1].url, <<".", "p", "d">>)

\* C18: a files_analyzed entry has status 'processed' if and only if the
\* asset was retrieved and was included in the Stage 1 input (as a fragment
\* or as an inline image); an asset whose retrieval failed, or that was
\* retrieved but gave nothing to Stage 1, has status 'error'.
C18_ProcessedIffIncluded ==
    report # <<>> =>
        \A n \in 1..Len(files) :
            report[1].files_analyzed[n].status =
                IF Truthy(files[n].path)
                   /\ (FragmentsOf(n) # {} \/ ImagesOf(n) # {})
                THEN "processed" ELSE "error"

\* C19: every asset of kind 'unknown' and every asset whose retrieval failed
\* gives the Stage 1 text exactly one fragment, a placeholder note, and
\* nothing else of it reaches the Stage 1 input.
C19_PlaceholderForSkipped ==
    stage1_input # <<>> =>
        \A n \in 1..Len(files) :
            (files[n].type = UNKNOWN \/ ~Truthy(files[n].path)) =>
                /\ Cardinality(FragmentsOf(n)) = 1
                /\ \A k \in FragmentsOf(n) :
                      stage1_input[1].extracted_text[k].label \in NoteLabels
                /\ ImagesOf(n) = {}

\* C20: each request goes Idle, Stage1Pending, Stage1Done, Stage2Pending and
\* then Complete or Failed, with no retry: each stage's call is issued at
\* most once, Stage 2 only after Stage 1; a request that failed in Stage 1
\* never called Stage 2, one that failed in Stage 2 called Stage 1 once, and
\* a request is complete only after one call of each stage.
C20_NoRetry ==
    /\ stage1_calls \in { 0, 1 }
    /\ stage2_calls \in { 0, 1 }
    /\ stage2_calls <= stage1_calls
    /\ (pc = "failed" /\ stage1_calls = 1 /\ extracted_data = <<>>) =>
          /\ stage2_calls = 0
          /\ error = <<"APIError">>
    /\ (pc = "failed" /\ stage2_calls = 1) =>
          /\ stage1_calls = 1
          /\ error \in { <<"APIError">>, <<"JSONDecodeError">> }
    /\ pc \in { "stage2", "file_stage2" } =>
          stage1_calls = 1 /\ stage2_calls = 0
    /\ pc \in { "done", "file_done" } =>
          stage1_calls = 1 /\ stage2_calls = 1

\* C20 witness: a request failed by its Stage 2 call raising.
C20_Witness ==
    /\ pc = "failed"
    /\ stage2_calls = 1
    /\ stage1_calls = 1
    /\ resp2 = <<>>
    /\ error = <<"APIError">>

\* The fragments extraction has appended so far that were built from files[n].
ExtractedOf(n) ==
    { k \in 1..Len(extracted_texts) : extracted_texts[k].src = n }

\* C21: an extraction failure on one asset never leaves
\* extract_text_from_files and never stops the later assets from being
\* extracted.  A request fails only at the fetch or in a generative stage,
\* and the Stage 1 call is made only after every file was handled; a PDF
\* gives a fragment only if its text is not empty (a failing parse is empty
\* text), and none without the PDF backend; an image that was downloaded
\* gives exactly one fragment, its OCR text if there is some and otherwise
\* the 'OCR not available' note with no text, always so without OCR.
C21_ExtractionFailureIsolated ==
    /\ pc = "failed" =>
          error \in { <<"ClientError">>, <<"APIError">>, <<"JSONDecodeError">> }
    /\ pc = "extract" => error = <<>> /\ j <= Len(files)
    /\ stage1_calls > 0 =>
          /\ j = Len(files)
          /\ stage1_input[1].extracted_text = extracted_texts
    /\ \A n \in 1..Len(files) :
          /\ n > j => ExtractedOf(n) = {}
          /\ (n <= j /\ files[n].type = PDF) =>
                /\ Cardinality(ExtractedOf(n)) <= 1
                /\ ~(PyPDF2 /\ Truthy(files[n].path)) => ExtractedOf(n) = {}
                /\ \A k \in ExtractedOf(n) :
                      /\ extracted_texts[k].label = "pdf_text"
                      /\ HasText(extracted_texts[k].text)
          /\ (n <= j /\ files[n].type = IMAGE /\ Truthy(files[n].path)) =>
                /\ Cardinality(ExtractedOf(n)) = 1
                /\ \A k \in ExtractedOf(n) :
                      \/ /\ extracted_texts[k].label = "ocr_text"
                         /\ HasText(extracted_texts[k].text)
                         /\ ocr
                      \/ /\ extracted_texts[k].label = "image_note"
                         /\ extracted_texts[k].text = <<>>

\* C21 witness: the Stage 1 call was made after a downloaded PDF gave no
\* text although the PDF backend is installed, and the image after it got
\* the note although OCR is installed.
C21_Witness ==
    /\ stage1_calls = 1
    /\ PyPDF2
    /\ ocr
    /\ Len(files) = 2
    /\ files[1].type = PDF
    /\ Truthy(files[1].path)
    /\ ExtractedOf(1) = {}
    /\ files[2].type = IMAGE
    /\ \E k \in ExtractedOf(2) : extracted_texts[k].label = "image_note"

\* The references whose download wrote a scratch file, in full or in part.
Written ==
    { n \in 1..Len(files) :
        Truthy(files[n].path) \/ files[n].error = << ExceptionText("write") >> }

\* C23: within one run the scratch filenames of distinct references are
\* pairwise distinct, so the run's downloads never overwrite each other:
\* every reference that wrote a file has its own file in the scratch
\* directory, and every downloaded reference's path still holds what its
\* own download wrote.
C23_FilenamesDistinct ==
    Resolved =>
        /\ \A n, m \in 1..Len(urls) :
              n # m => Filename(urls[n], n - 1) # Filename(urls[m], m - 1)
        /\ Cardinality(temp_dir) = Cardinality(Written)
        /\ \A n \in 1..Len(files) :
              Truthy(files[n].path) =>
                  /\ files[n].path[1] = Filename(urls[n], n - 1)
                  /\ ReadBytes(temp_dir, files[n].path[1]) = files[n].url

\* C23 witness: the download loop is over for three references of the same
\* kind, two of the same field path and a third whose field path is the
\* same once '.' is replaced; the first two were downloaded and the write
\* of the third failed.
C23_Witness ==
    /\ pc = "extract"
    /\ Len(files) = 3
    /\ urls[1].field = urls[2].field
    /\ urls[2].field # urls[3].field
    /\ Replace(urls[2].field, ".", "_") = Replace(urls[3].field, ".", "_")
    /\ urls[1].type = urls[2].type
    /\ urls[2].type = urls[3].type
    /\ Truthy(files[1].path)
    /\ Truthy(files[2].path)
    /\ files[3].error = << ExceptionText("write") >>

\* C22: a handler responds only after the service pipeline it invoked has
\* run to completion.  A response to an accepted request finds the pipeline
\* complete or failed with both generative calls accounted for; a success
\* response carries the pipeline's result (the report, or the analysis under
\* medical_analysis); and a pipeline that failed is answered with 500 and
\* the error's description.
C22_HandlerAwaitsPipeline ==
    (response # <<>> /\ response[1].status # 400
        /\ response[1].detail # ExceptionText("write")) =>
        /\ pc \in { "done", "file_done", "failed" }
        /\ (response[1].status = 200 /\ pc = "done") =>
              response[1].body = report
        /\ (response[1].status = 200 /\ pc = "file_done") =>
              /\ response[1].body # <<>>
              /\ response[1].body[1].medical_analysis = analysis[1]
        /\ pc = "failed" =>
              /\ response[1].status = 500
              /\ response[1].detail = error[1]

=============================================================================
